---- MODULE Spec2Model ----
(***************************************************************************)
(* Model of transcribe.py: main (extract audio, detect TR segments, clip   *)
(* and transcribe each one, save the transcript, optionally make an .ass   *)
(* subtitle) and the time formatter sec2hmmssms.                           *)
(*                                                                         *)
(* Times inside main are fixed-point milliseconds (a Segment's start/end   *)
(* and the waveform duration are seconds with three decimals, so           *)
(* clip.start*1000 is the integer kept here).  sec2hmmssms takes its       *)
(* argument in units of 1/Scale second.  Texts are sequences of one-       *)
(* character strings.                                                      *)
(***************************************************************************)
EXTENDS Integers, Sequences, FiniteSets, TLC

VARIABLES
    pc,          \* position in main
    ass,         \* the --ass flag
    audioWav,    \* temp/audio.wav: "absent", "stale" (earlier run), "fresh", "partial"
    trWav,       \* temp/tr.wav exists
    out,         \* the file at out_file
    assFile,     \* the sibling .ass file
    failures,    \* the external collaborators that failed in this run
    segs,        \* tr_clips, the detector's ordered output
    duration,    \* raw_audio.duration_seconds, in ms
    idx,         \* number of segments the loop has finished
    clip,        \* the loop variable
    clip_start,  \* ms
    clip_end,    \* ms
    results,     \* result['text'] of every finished iteration
    transcript,  \* the transcript list
    sec,         \* argument of a direct call of sec2hmmssms
    hmmssms      \* its return value

vars == <<pc, ass, audioWav, trWav, out, assFile, failures, segs, duration, idx,
          clip, clip_start, clip_end, results, transcript, sec, hmmssms>>

mainVars == <<ass, audioWav, trWav, out, assFile, failures, segs, duration, idx,
              clip, clip_start, clip_end, results, transcript>>

----------------------------------------------------------------------------
(* Bounds and input domains *)

MaxSegs == 2

Pad == 1000
StartOffset == 900
Scale == 100 * 100

Times == {0, 500, 2000, 8000, 9500}
Durations == {0, 1000, 10000}
Whitespace == {" "}
Hello == <<"h", "e", "l", "l", "o">>

Segments == {[start |-> s, end |-> e] : s \in Times, e \in Times}

OrderedSegment(g) == g.start < g.end

\* what the detector can return: ordered, non-overlapping intervals
SegSeqs ==
    UNION {{q \in [1..n -> {g \in Segments : OrderedSegment(g)}] :
              \A i \in 1..(n - 1) : q[i].end <= q[i + 1].start} : n \in 0..MaxSegs}

\* what the transcriber can return
Texts ==
    {<<>>, <<" ">>, <<"a">>, <<" ", "a">>, <<"a", " ">>, <<" ", "a", " ">>,
     <<"a", " ", "a">>, Hello}

NoFile == [state |-> "none", content |-> <<>>]
OldFile == [state |-> "old", content |-> <<>>]

----------------------------------------------------------------------------
(* sec2hmmssms and the formatting it relies on *)

\* truncation where the code rounds
RoundDown(n, d) == n \div d

\* round(n/d) of Python 3 and of the 'f' format: ties go to the even neighbour
Round(n, d) ==
    LET q == n \div d
        r == n % d
    IN  IF 2 * r < d THEN q
        ELSE IF 2 * r > d THEN q + 1
        ELSE IF q % 2 = 0 THEN q ELSE q + 1

\* the 02d / 02.0f formats: at least two digits, zero padded
Fmt02(n) == IF n < 10 THEN "0" \o ToString(n) ELSE ToString(n)

sec2hmmssms(x) ==
    LET m0 == x \div (60 * Scale)
        s  == x % (60 * Scale)
        h  == m0 \div 60
        m  == m0 % 60
        ms == Round((s - (s \div Scale) * Scale) * 100, Scale)
    IN  ToString(h) \o ":" \o Fmt02(m) \o ":" \o Fmt02(Round(s, Scale)) \o "."
          \o Fmt02(ms)

----------------------------------------------------------------------------
(* Helpers of main *)

RECURSIVE LStrip(_)
LStrip(t) == IF t # <<>> /\ Head(t) \in Whitespace THEN LStrip(Tail(t)) ELSE t

RECURSIVE RStrip(_)
RStrip(t) ==
    IF t # <<>> /\ t[Len(t)] \in Whitespace THEN RStrip(SubSeq(t, 1, Len(t) - 1)) ELSE t

\* lstrip() where the code strips both ends
StripLeft(t) == LStrip(t)

\* str.strip()
Strip(t) == RStrip(LStrip(t))

\* the padded start without the first-second guard
ClipStartNoClamp(start) == start - Pad

ClipStart(start) == IF start > Pad THEN start - Pad ELSE 0

ClipEnd(end, d) == IF end < d - Pad THEN end + Pad ELSE d

Entry(cs, end, text) == [start |-> cs + StartOffset, end |-> end, text |-> text]

\* a loop that ends after its first iteration
LoopDoneEarly == idx >= 1 \/ idx = Len(segs)

LoopDone == idx = Len(segs)

RECURSIVE Join(_)
Join(t) == IF t = <<>> THEN "" ELSE Head(t) \o Join(Tail(t))

Dialogue(tr) ==
    "Dialogue: 0," \o sec2hmmssms(tr.start * (Scale \div 1000)) \o ","
      \o sec2hmmssms(tr.end * (Scale \div 1000)) \o ",English,,0,0,0,," \o Join(tr.text)

----------------------------------------------------------------------------
(* main *)

Init ==
    /\ pc = "extract"
    /\ ass \in BOOLEAN
    /\ audioWav \in {"absent", "stale"}
    /\ trWav \in BOOLEAN
    /\ out \in {NoFile, OldFile}
    /\ assFile = NoFile
    /\ failures = {}
    /\ segs = <<>>
    /\ duration = 0
    /\ idx = 0
    /\ clip = [start |-> 0, end |-> 0]
    /\ clip_start = 0
    /\ clip_end = 0
    /\ results = <<>>
    /\ transcript = <<>>
    /\ sec = 0
    /\ hmmssms = ""

\* an uncaught exception ends the run
Abort ==
    pc' = "aborted"

\* lines 26-29: subprocess.run without check=True; only a missing binary raises
Extract ==
    /\ pc = "extract"
    /\ \/ /\ audioWav' = "fresh"
          /\ pc' = "detect"
          /\ UNCHANGED failures
       \/ /\ audioWav' \in {audioWav, "partial"}
          /\ pc' = "detect"
          /\ failures' = failures \cup {"ffmpeg_exit"}
       \/ /\ Abort
          /\ failures' = failures \cup {"ffmpeg_missing"}
          /\ UNCHANGED audioWav
    /\ UNCHANGED <<ass, trWav, out, assFile, segs, duration, idx, clip, clip_start,
                   clip_end, results, transcript, sec, hmmssms>>

\* lines 32-36
Detect ==
    /\ pc = "detect"
    /\ \/ /\ audioWav # "absent"
          /\ \E q \in SegSeqs : segs' = q
          /\ pc' = "load"
          /\ UNCHANGED failures
       \/ /\ Abort
          /\ failures' = failures \cup {"detector"}
          /\ UNCHANGED segs
    /\ UNCHANGED <<ass, audioWav, trWav, out, assFile, duration, idx, clip, clip_start,
                   clip_end, results, transcript, sec, hmmssms>>

\* lines 39-41
Load ==
    /\ pc = "load"
    /\ \/ /\ \E d \in Durations : duration' = d
          /\ pc' = "loop"
          /\ UNCHANGED failures
       \/ /\ Abort
          /\ failures' = failures \cup {"loader"}
          /\ UNCHANGED duration
    /\ transcript' = <<>>
    /\ UNCHANGED <<ass, audioWav, trWav, out, assFile, segs, idx, clip, clip_start,
                   clip_end, results, sec, hmmssms>>

\* lines 42-55: one iteration of the loop
LoopStep ==
    /\ pc = "loop"
    /\ ~LoopDone
    /\ clip' = segs[idx + 1]
    /\ clip_start' = ClipStart(clip'.start)
    /\ clip_end' = ClipEnd(clip'.end, duration)
    /\ trWav' = TRUE
    /\ \/ \E text \in Texts :
            /\ results' = Append(results, text)
            /\ transcript' = IF Strip(text) # <<>>
                             THEN Append(transcript,
                                         Entry(clip_start', clip'.end, Strip(text)))
                             ELSE transcript
            /\ idx' = idx + 1
            /\ UNCHANGED <<pc, failures>>
       \/ /\ Abort
          /\ failures' = failures \cup {"transcriber"}
          /\ UNCHANGED <<results, transcript, idx>>
    /\ UNCHANGED <<ass, audioWav, out, assFile, segs, duration, sec, hmmssms>>

\* line 56: os.remove raises when the file is not there
Cleanup ==
    /\ pc = "loop"
    /\ LoopDone
    /\ IF trWav
       THEN /\ trWav' = FALSE
            /\ pc' = "save"
            /\ UNCHANGED failures
       ELSE /\ Abort
            /\ UNCHANGED <<trWav, failures>>
    /\ UNCHANGED <<ass, audioWav, out, assFile, segs, duration, idx, clip, clip_start,
                   clip_end, results, transcript, sec, hmmssms>>

\* lines 59-60
Save ==
    /\ pc = "save"
    /\ out' = [state |-> "written", content |-> transcript]
    /\ pc' = IF ass THEN "make_ass" ELSE "finish"
    /\ UNCHANGED <<ass, audioWav, trWav, assFile, failures, segs, duration, idx, clip,
                   clip_start, clip_end, results, transcript, sec, hmmssms>>

\* lines 63-64 and make_ass, lines 113-122
MakeAss ==
    /\ pc = "make_ass"
    /\ assFile' = [state |-> "written",
                   content |-> [i \in 1..Len(out.content) |-> Dialogue(out.content[i])]]
    /\ pc' = "finish"
    /\ UNCHANGED <<ass, audioWav, trWav, out, failures, segs, duration, idx, clip,
                   clip_start, clip_end, results, transcript, sec, hmmssms>>

\* line 65
Done ==
    /\ pc = "finish"
    /\ pc' = "done"
    /\ UNCHANGED <<mainVars, sec, hmmssms>>

Next == Extract \/ Detect \/ Load \/ LoopStep \/ Cleanup \/ Save \/ MakeAss \/ Done

Spec == Init /\ [][Next]_vars

----------------------------------------------------------------------------
(* A direct call of sec2hmmssms *)

FmtInputs ==
    {((h * 60 + m) * 60 + s) * Scale + f :
        h \in {0, 9}, m \in {0, 1, 3, 59}, s \in {0, 29, 59},
        f \in {0, 50, 5000, 6678, 9950, 9999}}

InitFmt ==
    /\ pc = "fmt_call"
    /\ sec \in FmtInputs
    /\ hmmssms = ""
    /\ ass = FALSE
    /\ audioWav = "absent"
    /\ trWav = FALSE
    /\ out = NoFile
    /\ assFile = NoFile
    /\ failures = {}
    /\ segs = <<>>
    /\ duration = 0
    /\ idx = 0
    /\ clip = [start |-> 0, end |-> 0]
    /\ clip_start = 0
    /\ clip_end = 0
    /\ results = <<>>
    /\ transcript = <<>>

Format ==
    /\ pc = "fmt_call"
    /\ hmmssms' = sec2hmmssms(sec)
    /\ pc' = "fmt_ret"
    /\ UNCHANGED <<mainVars, sec>>

NextFmt == Format

SpecFmt == InitFmt /\ [][NextFmt]_vars

----------------------------------------------------------------------------
(* Properties *)

Max(a, b) == IF a >= b THEN a ELSE b
Min(a, b) == IF a <= b THEN a ELSE b

IterationRan == idx > 0 \/ "transcriber" \in failures

\* C1: once an external collaborator has failed (ffmpeg exits unsuccessfully
\* or cannot be started, the detector, the model loader or the transcriber
\* fails) the run has ended: the output transcript is not written, 'Done!'
\* is not reached, and a failed extraction is not followed by detection.
CE_C1 ==
    failures # {} =>
        /\ out.state # "written"
        /\ pc # "done"
        /\ ("ffmpeg_exit" \in failures =>
                pc \notin {"load", "loop", "save", "make_ass", "finish"})

\* C2: the clip range computed in main is a valid range inside the waveform,
\* 0 <= clip_start <= clip_end <= duration (ms), whatever duration is.
CE_C2 == 0 <= clip_start /\ clip_start <= clip_end /\ clip_end <= duration

\* C3: after a run that completes, neither temp/tr.wav nor temp/audio.wav
\* remains on disk.
CE_C3 == pc = "done" => (~trWav /\ audioWav = "absent")

\* C4: the output file and the subtitle file change only once every detected
\* segment has been transcribed, so a transcriber failure inside the loop
\* leaves the output path as it was.
Thm_C4 ==
    /\ [][(out' # out \/ assFile' # assFile) =>
            (idx = Len(segs) /\ Len(results) = Len(segs))]_vars
    /\ []("transcriber" \in failures => out.state # "written" /\ assFile.state # "written")

W_C4 ==
    /\ pc = "aborted"
    /\ "transcriber" \in failures
    /\ idx = 1
    /\ Len(transcript) = 1
    /\ Len(segs) = 2
    /\ out = OldFile

\* the text between the first and the last non-whitespace character
RefTrim(t) ==
    LET keep == {i \in 1..Len(t) : t[i] \notin Whitespace}
    IN  IF keep = {} THEN <<>>
        ELSE SubSeq(t, CHOOSE i \in keep : \A j \in keep : i <= j,
                       CHOOSE i \in keep : \A j \in keep : i >= j)

RECURSIVE RefTranscript(_)
RefTranscript(k) ==
    IF k = 0 THEN <<>>
    ELSE IF RefTrim(results[k]) = <<>> THEN RefTranscript(k - 1)
    ELSE Append(RefTranscript(k - 1),
                [start |-> Max(0, segs[k].start - 1000) + 900,
                 end   |-> segs[k].end,
                 text  |-> RefTrim(results[k])])

\* C5: the transcript is the detection-order subsequence of the segments whose
\* text is non-empty after trimming, each mapped to {start: clip_start + 0.9 s,
\* end: the raw segment end, text: the trimmed text}; the written file holds
\* it; a 10 s waveform with segment (2.0, 8.0) and text "hello" gives
\* [{start: 1.9, end: 8.0, text: "hello"}].
Thm_C5 ==
    /\ Len(results) = idx
    /\ transcript = RefTranscript(idx)
    /\ out.state = "written" => out.content = RefTranscript(Len(segs))
    /\ (/\ duration = 10000
        /\ segs = <<[start |-> 2000, end |-> 8000]>>
        /\ results = <<Hello>>)
        => transcript = <<[start |-> 1900, end |-> 8000, text |-> Hello]>>

W_C5 ==
    /\ pc = "done"
    /\ out.state = "written"
    /\ Len(segs) = 2
    /\ results = << <<" ">>, <<" ", "a">> >>
    /\ out.content = <<[start |-> segs[2].start - 100, end |-> segs[2].end,
                        text |-> <<"a">>]>>

\* C6: the padded clip range equals the clamped reference, clip_start =
\* max(0, start - 1 s) and clip_end = min(D, end + 1 s): 0 for start <= 1 s,
\* D for end >= D - 1 s, exactly one second of padding otherwise.
Thm_C6 ==
    IterationRan =>
        /\ clip \in {segs[i] : i \in 1..Len(segs)}
        /\ clip_start = Max(0, clip.start - 1000)
        /\ clip_end = Min(duration, clip.end + 1000)
        /\ clip.start <= 1000 => clip_start = 0
        /\ clip.start > 1000 => clip_start = clip.start - 1000
        /\ clip.end >= duration - 1000 => clip_end = duration
        /\ clip.end < duration - 1000 => clip_end = clip.end + 1000

W_C6 ==
    /\ idx = 2
    /\ segs[1].start <= 1000
    /\ clip = segs[2]
    /\ clip.start > 1000
    /\ clip.end >= duration - 1000
    /\ clip_start = clip.start - 1000
    /\ clip_end = duration
    /\ duration > 0

\* C7: sec2hmmssms(209.6678) = "0:03:30.67", sec2hmmssms(60) = "0:01:00.00"
\* and sec2hmmssms(0) = "0:00:00.00".
Thm_C7 ==
    pc = "fmt_ret" =>
        /\ sec = 2096678 => hmmssms = "0:03:30.67"
        /\ sec = 600000 => hmmssms = "0:01:00.00"
        /\ sec = 0 => hmmssms = "0:00:00.00"

W_C7 == pc = "fmt_ret" /\ sec = 2096678 /\ hmmssms = "0:03:30.67"

\* C8: a run in which the detector returns no segments, no temp/tr.wav was
\* left by an earlier run and no external collaborator fails does not abort.
CE_C8 == (pc = "aborted" /\ segs = <<>> /\ ~trWav) => failures # {}

\* C9: when every detected segment has 0 <= start < end <= D, every entry of
\* the transcript has start < end.
CE_C9 ==
    (\A i \in 1..Len(segs) :
        0 <= segs[i].start /\ segs[i].start < segs[i].end /\ segs[i].end <= duration)
    => \A j \in 1..Len(transcript) : transcript[j].start < transcript[j].end

\* H:MM:SS.CC of a whole number c of centiseconds
Render(c) ==
    ToString(c \div 360000) \o ":" \o Fmt02((c \div 6000) % 60) \o ":"
      \o Fmt02((c \div 100) % 60) \o "." \o Fmt02(c % 100)

\* the renderings of x whose seconds field is the whole seconds of x and whose
\* value is less than 0.01 s away from x
RefRenderings(x) ==
    {Render(c) : c \in {k \in {x \div 100, x \div 100 + 1} :
                          /\ k \div 100 = x \div Scale
                          /\ k * 100 - x < 100
                          /\ x - k * 100 < 100}}

\* C10: for 0 <= sec < 36000, sec2hmmssms(sec) is a rendering H:MM:SS.CC of
\* sec: whole seconds in SS, CC in 00..99, less than 0.01 s away from sec.
CE_C10 == pc = "fmt_ret" => hmmssms \in RefRenderings(sec)

====
